---- MODULE Spec2Model ----
(***************************************************************************)
(* Alert handlers of consul-alerting (handler.go): StdoutHandler,          *)
(* EmailHandler, PagerdutyHandler and SlackHandler, each with its Alert    *)
(* method, driven by a dispatcher that calls the configured handlers one   *)
(* after another with the same (datacenter, alert) pair.                   *)
(*                                                                         *)
(* Text the code takes apart (recipients, log levels, Message, Details)    *)
(* is a sequence of one-character strings; text the code only glues        *)
(* together (datacenter, Service, Tag, Node) is a string.                  *)
(***************************************************************************)
EXTENDS Integers, Sequences, FiniteSets, TLC

(***************************************************************************)
(* Bounds of the model.                                                    *)
(***************************************************************************)
\* MaxRetries of a handler ranges over -1 .. MaxRetriesBound
MaxRetriesBound == 2
\* an EmailHandler has at most this many recipients
MaxRecipients == 2
\* the monitoring side delivers at most this many alerts
MaxAlerts == 2
\* the dispatcher holds at most this many handlers
MaxHandlers == 2
\* a PagerDutyResponse carries at most this many errors
MaxErrors == 2

(***************************************************************************)
(* Library functions, computed as the Go library computes them.            *)
(***************************************************************************)
Upper == <<"A","B","C","D","E","F","G","H","I","J","K","L","M",
           "N","O","P","Q","R","S","T","U","V","W","X","Y","Z">>
Lower == <<"a","b","c","d","e","f","g","h","i","j","k","l","m",
           "n","o","p","q","r","s","t","u","v","w","x","y","z">>

LowerChar(c) ==
    IF \E k \in DOMAIN Upper : Upper[k] = c
    THEN Lower[CHOOSE k \in DOMAIN Upper : Upper[k] = c]
    ELSE c

ToLowerUnchanged(s) == s

\* strings.ToLower
ToLower(s) == [k \in DOMAIN s |-> LowerChar(s[k])]

\* strings.Split(s, sep) for a one-character sep: the pieces between the
\* separators, so n separators give n + 1 pieces and "" gives one empty piece
RECURSIVE Split(_, _)
Split(s, sep) ==
    IF \E k \in DOMAIN s : s[k] = sep
    THEN LET k == CHOOSE j \in DOMAIN s :
                     s[j] = sep /\ \A m \in 1..(j - 1) : s[m] # sep
         IN  <<SubSeq(s, 1, k - 1)>> \o Split(SubSeq(s, k + 1, Len(s)), sep)
    ELSE <<s>>

\* api.HealthPassing
HealthPassing == "passing"

\* time.Sleep(5 * time.Second)
SleepSeconds == 5

(***************************************************************************)
(* Input domains.                                                          *)
(***************************************************************************)
Datacenters == {"us", "us-east"}
Services    == {"web", "east-web"}
Tags        == {"", "v2"}
Nodes       == {"n1", "n2"}
Statuses    == {"passing", "warning", "critical"}

Msg1 == <<"u","p">>
Msg2 == <<"d","o","w","n">>
Messages == {Msg1, Msg2}
DetailsSet == { <<>>,
                <<"a">>,
                <<"a","\n","b">>,
                <<"a","\n","\n","b">> }

\* alerts that vary the monitored entity and its status
EntityAlerts ==
    [Service : Services, Tag : Tags, Node : Nodes, Status : Statuses,
     Message : {Msg1}, Details : {<<>>}]
    \cup
    [Service : {"web"}, Tag : {"v2"}, Node : {"n1"}, Status : Statuses,
     Message : {Msg2}, Details : {<<"a","\n","b">>}]

\* alerts that vary the text
TextAlerts ==
    [Service : {"web"}, Tag : {"v2"}, Node : {"n1"}, Status : {"critical"},
     Message : Messages, Details : DetailsSet]

\* alerts for the handlers that read neither the entity nor split the text
PlainAlerts ==
    [Service : {"web"}, Tag : {"v2"}, Node : {"n1"},
     Status : {"passing", "critical"},
     Message : {Msg2}, Details : {<<"a","\n","b">>}]

LogLevels == { <<"p","a","n","i","c">>,
               <<"F","A","T","A","L">>,
               <<"e","r","r","o","r">>,
               <<"W","a","r","n">>,
               <<"w","a","r","n","i","n","g">>,
               <<"I","N","F","O">>,
               <<"d","e","b","u","g">>,
               <<"t","r","a","c","e">>,
               <<>> }

AddrA == <<"a","@","x">>
AddrB == <<"b","@","y">>
AddrRoot == <<"r","o","o","t">>
Addresses == {AddrA, AddrB, AddrRoot}

RetryRange == (-1)..MaxRetriesBound

SeqsUpTo(S, n) == UNION { [1..k -> S] : k \in 0..n }

StdoutHandlers == [kind : {"stdout"}, LogLevel : LogLevels]
EmailHandlers ==
    [kind : {"email"}, Recipients : SeqsUpTo(Addresses, MaxRecipients),
     MaxRetries : RetryRange]
PagerdutyHandlers ==
    [kind : {"pagerduty"}, ServiceKey : {"key"}, MaxRetries : RetryRange]
SlackHandlers ==
    [kind : {"slack"}, Token : {"token"}, ChannelName : {"ops"},
     MaxRetries : RetryRange]

Handlers == StdoutHandlers \cup EmailHandlers \cup PagerdutyHandlers
            \cup SlackHandlers

\* results of net.LookupMX: an error, or a list of records that may be empty
MXResults == { [err |-> TRUE,  records |-> <<>>],
               [err |-> FALSE, records |-> <<>>],
               [err |-> FALSE, records |-> <<"mx1">>] }

(***************************************************************************)
(* State.                                                                  *)
(***************************************************************************)
VARIABLES
    handlers,    \* the configured handlers, in configuration order
    datacenter,  \* first argument of the Alert calls in progress
    alert,       \* second argument of the Alert calls in progress
    calls,       \* number of alerts delivered so far
    cur,         \* dispatcher: index of the handler being called, 0 = idle
    pc,          \* per handler: where its Alert call stands
    text,        \* StdoutHandler.Alert: text
    pos,         \* index of the range loop (line of text, recipient)
    d,           \* EmailHandler.Alert: host of the dialer d
    tries,       \* EmailHandler.Alert, SlackHandler.Alert: tries
    trace,       \* per handler: what its Alert call has done so far
    incidents    \* the incident tracker: the incidents it holds

vars == <<handlers, datacenter, alert, calls, cur, pc, text, pos, d, tries,
          trace, incidents>>

NoAlert == [Service |-> "", Tag |-> "", Node |-> "", Status |-> "",
            Message |-> <<>>, Details |-> <<>>]

H == DOMAIN handlers

Ended(i) == pc[i] \in {"returned", "panicked"}

\* os.Exit has run: nothing of the process runs any more
Exited == \E i \in H : pc[i] = "exited"

Emit(i, evs) == trace' = [trace EXCEPT ![i] = @ \o evs]

(***************************************************************************)
(* Dispatcher: calls each handler in turn with the same pair.              *)
(***************************************************************************)
Deliver(dc, a) ==
    /\ ~Exited
    /\ cur = 0
    /\ calls < MaxAlerts
    /\ datacenter' = dc
    /\ alert' = a
    /\ calls' = calls + 1
    /\ cur' = IF Len(handlers) > 0 THEN 1 ELSE 0
    /\ pc' = [i \in H |-> "idle"]
    /\ text' = [i \in H |-> <<>>]
    /\ pos' = [i \in H |-> 0]
    /\ d' = [i \in H |-> ""]
    /\ trace' = [i \in H |-> <<>>]
    /\ UNCHANGED <<handlers, tries, incidents>>

\* the loop moves on once the call has returned, or has panicked and the
\* dispatcher has recovered
Advance ==
    /\ ~Exited
    /\ cur \in H
    /\ Ended(cur)
    /\ cur' = IF cur < Len(handlers) THEN cur + 1 ELSE 0
    /\ UNCHANGED <<handlers, datacenter, alert, calls, pc, text, pos, d,
                   tries, trace, incidents>>

\* the value of cur while the handlers run as one task each
Tasks == -1

\* the loop has reached handler i and calls it, or handler i has a task of
\* its own
DispatcherAt(i) == cur = i \/ cur = Tasks

\* the alert is handed to all the handlers at once, one task per handler
Spawn(dc, a) ==
    /\ ~Exited
    /\ cur = 0
    /\ calls < MaxAlerts
    /\ datacenter' = dc
    /\ alert' = a
    /\ calls' = calls + 1
    /\ cur' = Tasks
    /\ pc' = [i \in H |-> "idle"]
    /\ text' = [i \in H |-> <<>>]
    /\ pos' = [i \in H |-> 0]
    /\ d' = [i \in H |-> ""]
    /\ trace' = [i \in H |-> <<>>]
    /\ UNCHANGED <<handlers, tries, incidents>>

\* every task is over: its call has returned, or has panicked and the task
\* has recovered
Join ==
    /\ ~Exited
    /\ cur = Tasks
    /\ \A i \in H : Ended(i)
    /\ cur' = 0
    /\ UNCHANGED <<handlers, datacenter, alert, calls, pc, text, pos, d,
                   tries, trace, incidents>>

(***************************************************************************)
(* StdoutHandler.Alert                                                     *)
(***************************************************************************)
StdoutTextAlwaysSplit(a) == <<a.Message>> \o Split(a.Details, "\n")

\* text: Message, and the lines of Details if there are Details
StdoutText(a) ==
    IF a.Details # <<>>
    THEN <<a.Message>> \o Split(a.Details, "\n")
    ELSE <<a.Message>>

StdoutMethodFatalAsError(level) ==
    CASE level = <<"p","a","n","i","c">> -> "panic"
      [] level = <<"f","a","t","a","l">> -> "error"
      [] level = <<"e","r","r","o","r">> -> "error"
      [] level = <<"w","a","r","n">> -> "warn"
      [] level = <<"w","a","r","n","i","n","g">> -> "warn"
      [] level = <<"i","n","f","o">> -> "info"
      [] level = <<"d","e","b","u","g">> -> "debug"
      [] OTHER -> ""

\* the logger method the switch selects for a lowered level, "" for none
StdoutMethod(level) ==
    CASE level = <<"p","a","n","i","c">> -> "panic"
      [] level = <<"f","a","t","a","l">> -> "fatal"
      [] level = <<"e","r","r","o","r">> -> "error"
      [] level = <<"w","a","r","n">> -> "warn"
      [] level = <<"w","a","r","n","i","n","g">> -> "warn"
      [] level = <<"i","n","f","o">> -> "info"
      [] level = <<"d","e","b","u","g">> -> "debug"
      [] OTHER -> ""

StdoutRange(lines, k) ==
    IF k <= Len(lines) THEN "stdout_line" ELSE "returned"

\* one pass of the loop over text
StdoutLine(i) ==
    /\ ~Exited
    /\ i \in H
    /\ pc[i] = "stdout_line"
    /\ LET line == text[i][pos[i]]
           m == StdoutMethod(ToLower(handlers[i].LogLevel))
       IN  /\ IF m = ""
              THEN UNCHANGED trace
              ELSE Emit(i, << [op |-> "log", level |-> m, line |-> line] >>)
           /\ pc' = [pc EXCEPT ![i] =
                        CASE m = "panic" -> "panicked"
                          [] m = "fatal" -> "exited"
                          [] OTHER -> StdoutRange(text[i], pos[i] + 1)]
           /\ pos' = [pos EXCEPT ![i] =
                        IF m \in {"panic", "fatal"} THEN @ ELSE @ + 1]
    /\ UNCHANGED <<handlers, datacenter, alert, calls, cur, text, d, tries,
                   incidents>>

(***************************************************************************)
(* EmailHandler.Alert                                                      *)
(***************************************************************************)
TriesCarriedOver(t) == t

\* tries := 0: the counter is a new local of the call, whatever count t an
\* earlier loop has left
TriesAtStart(t) == 0

RetryCondOneMore(t, maxRetries) == t <= maxRetries + 1

\* the condition of the retry loops: tries <= handler.MaxRetries
RetryCond(t, maxRetries) == t <= maxRetries

EmailRange(h, k) ==
    IF k <= Len(h.Recipients) THEN "email_recipient" ELSE "returned"

EmailRetryFatal(h, k, t) ==
    IF RetryCond(t, h.MaxRetries) THEN "email_send" ELSE "exited"

\* where the call stands with `t` tries made for recipient k
EmailRetry(h, k, t) ==
    IF RetryCond(t, h.MaxRetries) THEN "email_send" ELSE EmailRange(h, k + 1)

\* log.Error, log.Errorf
ErrorLog(msg) == [op |-> "error", msg |-> msg]
\* time.Sleep(5 * time.Second)
Sleep == [op |-> "sleep", seconds |-> SleepSeconds]
\* the same, marked with the recipient whose turn it is
EmailError(k, msg) == [op |-> "error", msg |-> msg, rcpt |-> k]
EmailSleep(k) == [op |-> "sleep", seconds |-> SleepSeconds, rcpt |-> k]

EmailFailureNoLastWait(h, k, t) ==
    <<EmailError(k, "Error sending alert email"),
      EmailError(k, "Retrying email in 5s...")>>
    \o (IF t < h.MaxRetries THEN <<EmailSleep(k)>> ELSE <<>>)

\* what follows a failed DialAndSend, whatever the count of tries t: two
\* log entries and the wait
EmailFailure(h, k, t) ==
    <<EmailError(k, "Error sending alert email"),
      EmailError(k, "Retrying email in 5s..."),
      EmailSleep(k)>>

OnLookupErrorReturn(h, k) == "returned"

\* `continue` after a failed lookup: on to the next recipient
OnLookupError(h, k) == EmailRange(h, k + 1)

\* the head of the loop over the recipients, up to the retry loop
EmailRecipient(i) ==
    /\ ~Exited
    /\ i \in H
    /\ pc[i] = "email_recipient"
    /\ LET h == handlers[i]
           k == pos[i]
           parts == Split(h.Recipients[k], "@")
       IN  IF Len(parts) < 2
           THEN \* strings.Split(recipient, "@")[1]: index out of range
                /\ pc' = [pc EXCEPT ![i] = "panicked"]
                /\ UNCHANGED <<pos, d, tries, trace>>
           ELSE \E res \in MXResults :
                LET lookup == [op |-> "lookup", rcpt |-> k,
                               domain |-> parts[2], err |-> res.err]
                IN  IF res.err
                    THEN /\ Emit(i, <<lookup,
                                EmailError(k, "Error looking up email server")>>)
                         /\ pos' = [pos EXCEPT ![i] = k + 1]
                         /\ pc' = [pc EXCEPT ![i] = OnLookupError(h, k)]
                         /\ UNCHANGED <<d, tries>>
                    ELSE IF Len(res.records) = 0
                    THEN \* records[0]: index out of range
                         /\ Emit(i, <<lookup>>)
                         /\ pc' = [pc EXCEPT ![i] = "panicked"]
                         /\ UNCHANGED <<pos, d, tries>>
                    ELSE /\ Emit(i, <<lookup>>)
                         /\ d' = [d EXCEPT ![i] = res.records[1]]
                         /\ tries' = [tries EXCEPT ![i] = TriesAtStart(@)]
                         /\ pc' = [pc EXCEPT ![i] =
                               EmailRetry(h, k, TriesAtStart(tries[i]))]
                         /\ pos' = [pos EXCEPT ![i] =
                               IF RetryCond(TriesAtStart(tries[i]), h.MaxRetries)
                               THEN k ELSE k + 1]
    /\ UNCHANGED <<handlers, datacenter, alert, calls, cur, text, incidents>>

\* one pass of the retry loop: d.DialAndSend(m) and what follows it
EmailSend(i) ==
    /\ ~Exited
    /\ i \in H
    /\ pc[i] = "email_send"
    /\ LET h == handlers[i]
           k == pos[i]
       IN  \E ok \in BOOLEAN :
           LET send == [op |-> "send", rcpt |-> k, host |-> d[i],
                        subject |-> alert.Message, body |-> alert.Details,
                        ok |-> ok]
           IN  IF ok
               THEN /\ Emit(i, <<send>>)
                    /\ pos' = [pos EXCEPT ![i] = k + 1]
                    /\ pc' = [pc EXCEPT ![i] = EmailRange(h, k + 1)]
                    /\ UNCHANGED tries
               ELSE /\ Emit(i, <<send>> \o EmailFailure(h, k, tries[i]))
                    /\ tries' = [tries EXCEPT ![i] = @ + 1]
                    /\ pc' = [pc EXCEPT ![i] = EmailRetry(h, k, tries[i] + 1)]
                    /\ pos' = [pos EXCEPT ![i] =
                          IF RetryCond(tries[i] + 1, h.MaxRetries)
                          THEN k ELSE k + 1]
    /\ UNCHANGED <<handlers, datacenter, alert, calls, cur, text, d, incidents>>

(***************************************************************************)
(* PagerdutyHandler.Alert                                                  *)
(***************************************************************************)
IncidentKeyWithStatus(dc, a) ==
    dc \o "-" \o a.Service \o "-" \o a.Tag \o "-" \o a.Node \o "-" \o a.Status

\* incidentKey := datacenter + "-" + alert.Service + "-" + alert.Tag + "-" + alert.Node
IncidentKey(dc, a) ==
    dc \o "-" \o a.Service \o "-" \o a.Tag \o "-" \o a.Node

PagerdutyOpCriticalOnly(status) ==
    IF status = "critical" THEN "trigger" ELSE "resolve"

\* the client method the status selects
PagerdutyOp(status) ==
    IF status # HealthPassing THEN "trigger" ELSE "resolve"

Entity(dc, a) ==
    [datacenter |-> dc, Service |-> a.Service, Tag |-> a.Tag, Node |-> a.Node]

\* the incident tracker, which files what it is sent under the key alone:
\* a trigger opens an incident under its key, or joins the one open under
\* it; a resolve closes the incident of its key
Tracker(held, op, key, entity) ==
    IF op = "trigger"
    THEN IF \E o \in held : o.key = key /\ o.state = "triggered"
         THEN held
         ELSE {o \in held : o.key # key}
              \cup {[key |-> key, entity |-> entity, state |-> "triggered"]}
    ELSE {IF o.key = key THEN [o EXCEPT !.state = "resolved"] ELSE o :
             o \in held}

PagerdutyErrorsFirstOnly(n) ==
    [e \in 1..(IF n > 0 THEN 1 ELSE 0) |->
        ErrorLog("Error sending alert to PagerDuty")]

\* the loop over the n errors of resp.Errors: one log entry for each
PagerdutyErrors(n) ==
    [e \in 1..n |-> ErrorLog("Error sending alert to PagerDuty")]

\* the whole call: the key, the one client call, which comes back with n
\* errors, and the log of resp.Errors
PagerdutyAlert(i) ==
    /\ ~Exited
    /\ i \in H
    /\ pc[i] = "pagerduty_call"
    /\ LET key == IncidentKey(datacenter, alert)
           op == PagerdutyOp(alert.Status)
       IN  \E n \in 0..MaxErrors :
           LET call == [op |-> op, key |-> key, description |-> alert.Message,
                        details |-> alert.Details,
                        MaxRetry |-> handlers[i].MaxRetries, errors |-> n]
           IN
           /\ Emit(i, <<call>> \o PagerdutyErrors(n))
           /\ incidents' = IF n = 0
                      THEN Tracker(incidents, op, key, Entity(datacenter, alert))
                      ELSE incidents
    /\ pc' = [pc EXCEPT ![i] = "returned"]
    /\ UNCHANGED <<handlers, datacenter, alert, calls, cur, text, pos, d,
                   tries>>

(***************************************************************************)
(* SlackHandler.Alert                                                      *)
(***************************************************************************)
SlackLoopFatal(h, t) ==
    IF RetryCond(t, h.MaxRetries) THEN "slack_post" ELSE "exited"

\* what follows a failed PostWebhook, whatever the count of tries t: the
\* error on standard output, two log entries and the wait
SlackFailure(h, t) ==
    <<[op |-> "stdout"],
      ErrorLog("Error sending alert to Slack"),
      ErrorLog("Retrying alert to slack in 5s..."),
      Sleep>>

\* the head of the retry loop
SlackLoop(h, t) ==
    IF RetryCond(t, h.MaxRetries) THEN "slack_post" ELSE "returned"

\* one pass of the retry loop: slack.PostWebhook and what follows it
SlackPost(i) ==
    /\ ~Exited
    /\ i \in H
    /\ pc[i] = "slack_post"
    /\ \E ok \in BOOLEAN :
       LET post == [op |-> "post", token |-> handlers[i].Token,
                    message |-> alert.Message, details |-> alert.Details,
                    ok |-> ok]
       IN  IF ok
           THEN /\ Emit(i, <<post>>)
                /\ pc' = [pc EXCEPT ![i] = "returned"]
                /\ UNCHANGED tries
           ELSE /\ Emit(i, <<post>>
                             \o SlackFailure(handlers[i], tries[i]))
                /\ tries' = [tries EXCEPT ![i] = @ + 1]
                /\ pc' = [pc EXCEPT ![i] = SlackLoop(handlers[i], tries[i] + 1)]
    /\ UNCHANGED <<handlers, datacenter, alert, calls, cur, text, pos, d,
                   incidents>>

(***************************************************************************)
(* The dispatcher's call of handler i: the Alert call runs up to its first *)
(* loop.                                                                   *)
(***************************************************************************)
Call(i) ==
    /\ ~Exited
    /\ i \in H
    /\ DispatcherAt(i)
    /\ pc[i] = "idle"
    /\ LET h == handlers[i]
       IN  CASE h.kind = "stdout" ->
                  /\ text' = [text EXCEPT ![i] = StdoutText(alert)]
                  /\ pos' = [pos EXCEPT ![i] = 1]
                  /\ pc' = [pc EXCEPT ![i] = StdoutRange(StdoutText(alert), 1)]
                  /\ UNCHANGED tries
            [] h.kind = "email" ->
                  /\ pos' = [pos EXCEPT ![i] = 1]
                  /\ pc' = [pc EXCEPT ![i] = EmailRange(h, 1)]
                  /\ UNCHANGED <<text, tries>>
            [] h.kind = "pagerduty" ->
                  /\ pc' = [pc EXCEPT ![i] = "pagerduty_call"]
                  /\ UNCHANGED <<text, pos, tries>>
            [] h.kind = "slack" ->
                  /\ tries' = [tries EXCEPT ![i] = TriesAtStart(@)]
                  /\ pc' = [pc EXCEPT ![i] =
                        SlackLoop(h, TriesAtStart(tries[i]))]
                  /\ UNCHANGED <<text, pos>>
    /\ UNCHANGED <<handlers, datacenter, alert, calls, cur, d, trace,
                   incidents>>

(***************************************************************************)
(* Specifications.                                                         *)
(***************************************************************************)
\* the alerts that exercise what a handler of this kind reads
Feed(kind) ==
    CASE kind = "stdout" -> {"us"} \X TextAlerts
      [] kind = "pagerduty" -> Datacenters \X EntityAlerts
      [] OTHER -> {"us"} \X PlainAlerts

InitWith(hs) ==
    /\ handlers = hs
    /\ datacenter = ""
    /\ alert = NoAlert
    /\ calls = 0
    /\ cur = 0
    /\ pc = [i \in DOMAIN hs |-> "idle"]
    /\ text = [i \in DOMAIN hs |-> <<>>]
    /\ pos = [i \in DOMAIN hs |-> 0]
    /\ d = [i \in DOMAIN hs |-> ""]
    /\ tries = [i \in DOMAIN hs |-> 0]
    /\ trace = [i \in DOMAIN hs |-> <<>>]
    /\ incidents = {}

\* one handler of any configuration, called with a sequence of alerts
Init == \E h \in Handlers : InitWith(<<h>>)

Next ==
    \/ \E p \in Feed(handlers[1].kind) : Deliver(p[1], p[2])
    \/ Advance
    \/ \E i \in 1..MaxHandlers : Call(i)
    \/ \E i \in 1..MaxHandlers : StdoutLine(i)
    \/ \E i \in 1..MaxHandlers : EmailRecipient(i)
    \/ \E i \in 1..MaxHandlers : EmailSend(i)
    \/ \E i \in 1..MaxHandlers : PagerdutyAlert(i)
    \/ \E i \in 1..MaxHandlers : SlackPost(i)

Spec == Init /\ [][Next]_vars

\* the handlers the dispatcher is configured with in SpecDispatch
DispatchHandlers ==
    { [kind |-> "stdout", LogLevel |-> <<"W","a","r","n">>],
      [kind |-> "stdout", LogLevel |-> <<"F","A","T","A","L">>],
      [kind |-> "email", Recipients |-> <<AddrRoot>>, MaxRetries |-> 0],
      [kind |-> "email", Recipients |-> <<AddrA>>, MaxRetries |-> 1],
      [kind |-> "pagerduty", ServiceKey |-> "key", MaxRetries |-> 0],
      [kind |-> "slack", Token |-> "token", ChannelName |-> "ops",
       MaxRetries |-> 1] }

\* one to MaxHandlers handlers, called in order for every alert
InitDispatch ==
    \E hs \in SeqsUpTo(DispatchHandlers, MaxHandlers) :
        Len(hs) > 0 /\ InitWith(hs)

\* what the process does by itself, the arrival of alerts left out
Steps ==
    \/ Advance
    \/ \E i \in 1..MaxHandlers : Call(i)
    \/ \E i \in 1..MaxHandlers : StdoutLine(i)
    \/ \E i \in 1..MaxHandlers : EmailRecipient(i)
    \/ \E i \in 1..MaxHandlers : EmailSend(i)
    \/ \E i \in 1..MaxHandlers : PagerdutyAlert(i)
    \/ \E i \in 1..MaxHandlers : SlackPost(i)

NextDispatch ==
    \/ \E p \in Feed("dispatch") : Deliver(p[1], p[2])
    \/ Steps

SpecDispatch == InitDispatch /\ [][NextDispatch]_vars

\* the process is sequential and every blocking call comes back, so a step
\* that can be taken is taken
FairDispatch == SpecDispatch /\ WF_vars(Steps)

\* the same handlers, run as interleaved tasks on each alert
NextConcurrent ==
    \/ \E p \in Feed("dispatch") : Spawn(p[1], p[2])
    \/ Join
    \/ \E i \in 1..MaxHandlers : Call(i)
    \/ \E i \in 1..MaxHandlers : StdoutLine(i)
    \/ \E i \in 1..MaxHandlers : EmailRecipient(i)
    \/ \E i \in 1..MaxHandlers : EmailSend(i)
    \/ \E i \in 1..MaxHandlers : PagerdutyAlert(i)
    \/ \E i \in 1..MaxHandlers : SlackPost(i)

SpecConcurrent == InitDispatch /\ [][NextConcurrent]_vars

(***************************************************************************)
(* What a call has done, read off its trace.                               *)
(***************************************************************************)
Ops(i, o) == SelectSeq(trace[i], LAMBDA e : e.op = o)

\* of an EmailHandler, whose events all carry the recipient
RcptOps(i, o, k) == SelectSeq(trace[i], LAMBDA e : e.op = o /\ e.rcpt = k)

ClientCalls(i) ==
    SelectSeq(trace[i], LAMBDA e : e.op \in {"trigger", "resolve"})

Retrying(i) == handlers[i].kind \in {"email", "slack"}

Attempts(i) ==
    IF handlers[i].kind = "email" THEN Ops(i, "send") ELSE Ops(i, "post")

Finished(i) == pc[i] \in {"returned", "panicked", "exited"}

\* att is a run of min(attempts until the first success, maxRetries + 1)
\* attempts: all but the last failed, and it stopped at a success or at
\* the budget
ExactAttempts(att, maxRetries) ==
    /\ Len(att) >= 1
    /\ Len(att) <= maxRetries + 1
    /\ \A j \in 1..(Len(att) - 1) : ~att[j].ok
    /\ att[Len(att)].ok \/ Len(att) = maxRetries + 1

Max(a, b) == IF a >= b THEN a ELSE b

(***************************************************************************)
(* C1: once an Alert call with MaxRetries >= 0 has ended, the number of    *)
(* posts of a SlackHandler, and the number of sends of an EmailHandler to  *)
(* each recipient whose MX lookup succeeded, is exactly                    *)
(* min(attempts until the first success, MaxRetries + 1).                  *)
(***************************************************************************)
C1_ExactAttempts ==
    \A i \in H :
        (Retrying(i) /\ Ended(i) /\ handlers[i].MaxRetries >= 0) =>
            IF handlers[i].kind = "slack"
            THEN ExactAttempts(Ops(i, "post"), handlers[i].MaxRetries)
            ELSE \A k \in DOMAIN handlers[i].Recipients :
                    (\E j \in DOMAIN trace[i] :
                        /\ trace[i][j].op = "lookup"
                        /\ trace[i][j].rcpt = k
                        /\ ~trace[i][j].err)
                    => ExactAttempts(RcptOps(i, "send", k),
                                     handlers[i].MaxRetries)

(***************************************************************************)
(* C2: a handler whose every delivery attempt fails returns control: the   *)
(* dispatcher goes on to call the handler after it, or ends its loop when  *)
(* it was the last.                                                        *)
(***************************************************************************)
FailsEveryAttempt(i) ==
    /\ i \in H
    /\ cur = i
    /\ Retrying(i)
    /\ Attempts(i) # <<>>
    /\ \A j \in DOMAIN Attempts(i) : ~Attempts(i)[j].ok

NextInvoked(i) ==
    \/ i = Len(handlers) /\ cur = 0
    \/ i < Len(handlers) /\ cur = i + 1 /\ pc[i + 1] # "idle"

C2_FailingHandlerReturns ==
    \A i \in 1..MaxHandlers : FailsEveryAttempt(i) ~> NextInvoked(i)

C2_Witness ==
    /\ Len(handlers) = 2
    /\ handlers[1].kind = "slack"
    /\ handlers[1].MaxRetries = 1
    /\ Len(Ops(1, "post")) = 2
    /\ \A j \in 1..2 : ~Ops(1, "post")[j].ok
    /\ cur = 2
    /\ pc[2] # "idle"

(***************************************************************************)
(* C3: an Alert call never ends in a panic or in the end of the process,   *)
(* except that of a StdoutHandler configured with panic or fatal.          *)
(***************************************************************************)
C3_NeverRaises ==
    \A i \in H :
        pc[i] \in {"panicked", "exited"} =>
            /\ handlers[i].kind = "stdout"
            /\ StdoutMethod(ToLower(handlers[i].LogLevel)) \in {"panic", "fatal"}

(***************************************************************************)
(* C4: once an EmailHandler call with MaxRetries >= 0 has ended, every     *)
(* recipient's MX lookup has been made, whatever happened to the           *)
(* recipients before it, and every recipient whose lookup succeeded has    *)
(* been sent to at least once.                                             *)
(***************************************************************************)
C4_RecipientsIsolated ==
    \A i \in H :
        (handlers[i].kind = "email" /\ Ended(i) /\ handlers[i].MaxRetries >= 0)
        => \A k \in DOMAIN handlers[i].Recipients :
              /\ Len(RcptOps(i, "lookup", k)) = 1
              /\ ~RcptOps(i, "lookup", k)[1].err
                    => Len(RcptOps(i, "send", k)) >= 1

(***************************************************************************)
(* C5: a PagerdutyHandler call that has returned has made exactly one      *)
(* client call, Resolve when the status is passing and Trigger for every   *)
(* other status; before that it has made none.                             *)
(***************************************************************************)
C5_ResolveIffPassing ==
    \A i \in H :
        handlers[i].kind = "pagerduty" =>
            IF pc[i] = "returned"
            THEN /\ Len(ClientCalls(i)) = 1
                 /\ alert.Status = "passing" => ClientCalls(i)[1].op = "resolve"
                 /\ alert.Status # "passing" => ClientCalls(i)[1].op = "trigger"
            ELSE ClientCalls(i) = <<>>

C5_Witness ==
    /\ handlers[1].kind = "pagerduty"
    /\ pc[1] = "returned"
    /\ alert.Status = "warning"
    /\ ClientCalls(1)[1].op = "trigger"

(***************************************************************************)
(* C6: the incident key of a client call is the four values datacenter,    *)
(* Service, Tag, Node joined by "-", whatever the status, the text and the *)
(* configuration; so every incident is held under the key of the entity    *)
(* that triggered it, and a resolve that went through leaves no incident   *)
(* triggered by its entity unresolved.                                     *)
(***************************************************************************)
RECURSIVE JoinDash(_)
JoinDash(parts) ==
    IF Len(parts) = 1 THEN parts[1]
    ELSE parts[1] \o "-" \o JoinDash(Tail(parts))

KeyOf(e) == JoinDash(<<e.datacenter, e.Service, e.Tag, e.Node>>)

Resolved(i) ==
    /\ handlers[i].kind = "pagerduty"
    /\ pc[i] = "returned"
    /\ ClientCalls(i)[1].op = "resolve"
    /\ Ops(i, "error") = <<>>

C6_KeyOfEntity ==
    /\ \A i \in H :
          (handlers[i].kind = "pagerduty" /\ pc[i] = "returned") =>
              ClientCalls(i)[1].key = KeyOf(Entity(datacenter, alert))
    /\ \A o \in incidents : o.key = KeyOf(o.entity)
    /\ \A i \in H :
          Resolved(i) =>
              \A o \in incidents :
                  o.entity = Entity(datacenter, alert) => o.state = "resolved"

C6_Witness ==
    /\ Resolved(1)
    /\ alert.Message = Msg2
    /\ \E o \in incidents :
          o.entity = Entity(datacenter, alert) /\ o.state = "resolved"

(***************************************************************************)
(* C7: a StdoutHandler emits Message and every line of Details at the      *)
(* configured level and nothing at any other level, and emits nothing for  *)
(* a level it does not know.                                               *)
(***************************************************************************)
\* the level a configured string names, letter case aside
LevelNamed(l) ==
    CASE l = <<"p","a","n","i","c">> -> "panic"
      [] l = <<"F","A","T","A","L">> -> "fatal"
      [] l = <<"e","r","r","o","r">> -> "error"
      [] l = <<"W","a","r","n">> -> "warn"
      [] l = <<"w","a","r","n","i","n","g">> -> "warn"
      [] l = <<"I","N","F","O">> -> "info"
      [] l = <<"d","e","b","u","g">> -> "debug"
      [] OTHER -> ""

\* the lines of a Details text
LinesOf(details) ==
    CASE details = <<"a">> -> << <<"a">> >>
      [] details = <<"a","\n","b">> -> << <<"a">>, <<"b">> >>
      [] details = <<"a","\n","\n","b">> -> << <<"a">>, <<>>, <<"b">> >>
      [] OTHER -> <<>>

Entries(level, lines) ==
    [j \in DOMAIN lines |-> [op |-> "log", level |-> level, line |-> lines[j]]]

\* the claim as stated: whatever the level, the finished call has emitted
\* all the lines
C7_EveryLineAtLevel ==
    \A i \in H :
        (handlers[i].kind = "stdout" /\ Finished(i)) =>
            LET m == LevelNamed(handlers[i].LogLevel)
            IN  trace[i] = IF m = "" THEN <<>>
                           ELSE Entries(m, <<alert.Message>>
                                           \o LinesOf(alert.Details))

\* as amended: all the lines for error, warn, warning, info and debug;
\* Message alone, and then the panic or the exit, for panic and fatal
C7_LinesAtLevel ==
    \A i \in H :
        handlers[i].kind = "stdout" =>
            LET m == LevelNamed(handlers[i].LogLevel)
            IN  /\ \A j \in DOMAIN trace[i] :
                      trace[i][j].op = "log" /\ trace[i][j].level = m
                /\ m = "" => trace[i] = <<>>
                /\ pc[i] = "returned" =>
                      /\ m \notin {"panic", "fatal"}
                      /\ m # "" => trace[i] = Entries(m, <<alert.Message>>
                                                  \o LinesOf(alert.Details))
                /\ (m \in {"panic", "fatal"} /\ pc[i] \notin {"idle", "stdout_line"})
                      => /\ trace[i] = Entries(m, <<alert.Message>>)
                         /\ pc[i] = IF m = "panic" THEN "panicked" ELSE "exited"

C7_Witness ==
    /\ handlers[1] = [kind |-> "stdout", LogLevel |-> <<"W","a","r","n">>]
    /\ pc[1] = "returned"
    /\ alert.Details = <<"a","\n","\n","b">>
    /\ Len(trace[1]) = 4

(***************************************************************************)
(* C8: when the MX lookup for a recipient fails, the error is logged next, *)
(* nothing is sent to that recipient and no wait is made for it, and the   *)
(* loop is at the next recipient: what follows the log is that             *)
(* recipient's lookup, and the call returns only past the last recipient.  *)
(***************************************************************************)
C8_LookupFailureSkips ==
    \A i \in H :
        handlers[i].kind = "email" =>
            /\ \A j \in DOMAIN trace[i] :
                  (trace[i][j].op = "lookup" /\ trace[i][j].err) =>
                      LET k == trace[i][j].rcpt
                      IN  /\ j + 1 <= Len(trace[i])
                          /\ trace[i][j + 1].op = "error"
                          /\ j + 2 <= Len(trace[i]) =>
                                /\ trace[i][j + 2].op = "lookup"
                                /\ trace[i][j + 2].rcpt = k + 1
                          /\ RcptOps(i, "send", k) = <<>>
                          /\ RcptOps(i, "sleep", k) = <<>>
                          /\ pos[i] > k
            /\ pc[i] = "returned" => pos[i] = Len(handlers[i].Recipients) + 1

C8_Witness ==
    /\ handlers[1].kind = "email"
    /\ Len(handlers[1].Recipients) = 2
    /\ Len(trace[1]) >= 3
    /\ trace[1][1].op = "lookup" /\ trace[1][1].err
    /\ trace[1][3].op = "lookup" /\ trace[1][3].rcpt = 2

(***************************************************************************)
(* C9: a single Alert call makes at most MaxRetries + 1 delivery attempts  *)
(* and at most MaxRetries + 1 waits.                                       *)
(***************************************************************************)
\* the claim as stated: the bound is per call
C9_BoundPerCall ==
    \A i \in H :
        Retrying(i) =>
            /\ Len(Attempts(i)) <= handlers[i].MaxRetries + 1
            /\ Len(Ops(i, "sleep")) <= handlers[i].MaxRetries + 1

\* as amended: the bound is per call for a SlackHandler and per recipient
\* for an EmailHandler, and it is max(0, MaxRetries + 1); a call that has
\* used the budget up has returned, or is past that recipient
C9_BoundPerRecipient ==
    \A i \in H :
        LET h == handlers[i]
            budget == Max(0, h.MaxRetries + 1)
        IN  /\ h.kind = "slack" =>
                  /\ Len(Ops(i, "post")) <= budget
                  /\ Len(Ops(i, "sleep")) <= budget
                  /\ (pc[i] # "idle" /\ Len(Ops(i, "post")) = budget)
                        => pc[i] = "returned"
            /\ h.kind = "email" =>
                  /\ \A k \in DOMAIN h.Recipients :
                        /\ Len(RcptOps(i, "send", k)) <= budget
                        /\ Len(RcptOps(i, "sleep", k)) <= budget
                        /\ (budget > 0 /\ Len(RcptOps(i, "send", k)) = budget)
                              => pos[i] > k
                  /\ Len(Ops(i, "send")) <= Len(h.Recipients) * budget
                  /\ Len(Ops(i, "sleep")) <= Len(h.Recipients) * budget
            /\ h.kind \in {"stdout", "pagerduty"} =>
                  /\ Len(ClientCalls(i)) <= 1
                  /\ Ops(i, "sleep") = <<>>

C9_Witness ==
    /\ handlers[1].kind = "email"
    /\ handlers[1].MaxRetries = 1
    /\ pc[1] = "returned"
    /\ Len(Ops(1, "send")) = 4
    /\ Len(Ops(1, "sleep")) = 4

(***************************************************************************)
(* C10: two different (datacenter, Service, Tag, Node) tuples never get    *)
(* the same incident key: no incident held under the key of a finished     *)
(* client call was triggered for another entity than the call's.           *)
(***************************************************************************)
C10_KeyUnique ==
    \A i \in H :
        (handlers[i].kind = "pagerduty" /\ pc[i] = "returned") =>
            \A o \in incidents :
                o.entity # Entity(datacenter, alert)
                    => o.key # ClientCalls(i)[1].key

(***************************************************************************)
(* C11: in the retry loops of EmailHandler and SlackHandler, a failed      *)
(* attempt is followed by its log entries and then by exactly one wait of  *)
(* SleepSeconds, before the next attempt, the next recipient or the        *)
(* return, the last permitted attempt included; a successful attempt is    *)
(* followed by no wait and by no further attempt (of the same recipient);  *)
(* so the waits are as many as the failed attempts.                        *)
(***************************************************************************)
IsAttempt(e) == e.op \in {"send", "post"}

\* the index of the first attempt or lookup after event j, or one past the end
NextTurn(tr, j) ==
    IF \E n \in (j + 1)..Len(tr) : IsAttempt(tr[n]) \/ tr[n].op = "lookup"
    THEN CHOOSE n \in (j + 1)..Len(tr) :
            /\ IsAttempt(tr[n]) \/ tr[n].op = "lookup"
            /\ \A m \in (j + 1)..(n - 1) :
                  ~(IsAttempt(tr[m]) \/ tr[m].op = "lookup")
    ELSE Len(tr) + 1

FailedThenOneWait(tr, j) ==
    LET n == NextTurn(tr, j)
    IN  /\ n - 1 > j
        /\ tr[n - 1].op = "sleep"
        /\ tr[n - 1].seconds = SleepSeconds
        /\ \A m \in (j + 1)..(n - 2) : tr[m].op # "sleep"
        /\ \E m \in (j + 1)..(n - 2) : tr[m].op = "error"

SucceededThenNothing(tr, j) ==
    /\ NextTurn(tr, j) = j + 1
    /\ j < Len(tr) => tr[j + 1].op = "lookup"

C11_OneWaitPerFailure ==
    \A i \in H :
        Retrying(i) =>
            /\ \A j \in DOMAIN trace[i] :
                  IsAttempt(trace[i][j]) =>
                      IF trace[i][j].ok
                      THEN SucceededThenNothing(trace[i], j)
                      ELSE FailedThenOneWait(trace[i], j)
            /\ Len(Ops(i, "sleep"))
                  = Len(SelectSeq(Attempts(i), LAMBDA e : ~e.ok))

\* a call that used up a budget of two attempts or more: its last attempt
\* failed and was still followed by the wait
C11_Witness ==
    \E i \in H :
        /\ Retrying(i)
        /\ pc[i] = "returned"
        /\ Len(Attempts(i)) = handlers[i].MaxRetries + 1
        /\ Len(Attempts(i)) >= 2
        /\ ~Attempts(i)[Len(Attempts(i))].ok
        /\ trace[i][Len(trace[i])].op = "sleep"

(***************************************************************************)
(* C12: a PagerdutyHandler call makes one client call, then logs one       *)
(* error entry for each error of the response (none for an empty list),    *)
(* makes no second client call and no wait of its own, and returns.        *)
(***************************************************************************)
C12_EveryErrorLogged ==
    \A i \in H :
        handlers[i].kind = "pagerduty" =>
            /\ pc[i] \in {"idle", "pagerduty_call", "returned"}
            /\ pc[i] # "returned" => trace[i] = <<>>
            /\ pc[i] = "returned" =>
                  /\ Len(ClientCalls(i)) = 1
                  /\ trace[i][1] = ClientCalls(i)[1]
                  /\ Len(Ops(i, "error")) = trace[i][1].errors
                  /\ Len(trace[i]) = 1 + trace[i][1].errors
                  /\ \A j \in 2..Len(trace[i]) :
                        trace[i][j] =
                            ErrorLog("Error sending alert to PagerDuty")
                  /\ Ops(i, "sleep") = <<>>

\* a response with two errors or more, each logged
C12_Witness ==
    \E i \in H :
        /\ handlers[i].kind = "pagerduty"
        /\ pc[i] = "returned"
        /\ trace[i][1].errors >= 2
        /\ Len(Ops(i, "error")) = trace[i][1].errors

(***************************************************************************)
(* C13: a StdoutHandler whose level is error, warn, warning, info or       *)
(* debug, in any letter case, emits Message first and then the lines of    *)
(* Details in their order, one entry each: 1 + the number of lines of      *)
(* Details entries in all, and Message alone when Details is empty.        *)
(***************************************************************************)
\* the number of newline-separated lines of a non-empty text
NumLines(s) == 1 + Len(SelectSeq(s, LAMBDA c : c = "\n"))

\* the lines put together again, a newline between two of them
RECURSIVE JoinLines(_)
JoinLines(ls) ==
    IF Len(ls) = 0 THEN <<>>
    ELSE IF Len(ls) = 1 THEN ls[1]
    ELSE ls[1] \o <<"\n">> \o JoinLines(Tail(ls))

C13_MessageThenLines ==
    \A i \in H :
        (/\ handlers[i].kind = "stdout"
         /\ LevelNamed(handlers[i].LogLevel)
               \in {"error", "warn", "info", "debug"}) =>
            /\ pc[i] \in {"idle", "stdout_line", "returned"}
            /\ pc[i] = "idle" => trace[i] = <<>>
            /\ pc[i] = "stdout_line" => Len(trace[i]) = pos[i] - 1
            /\ \A j \in DOMAIN trace[i] :
                  /\ trace[i][j].op = "log"
                  /\ IF j = 1
                     THEN trace[i][j].line = alert.Message
                     ELSE /\ j - 1 \in DOMAIN LinesOf(alert.Details)
                          /\ trace[i][j].line = LinesOf(alert.Details)[j - 1]
            /\ pc[i] = "returned" =>
                  IF alert.Details = <<>>
                  THEN Len(trace[i]) = 1
                  ELSE /\ Len(trace[i]) = 1 + NumLines(alert.Details)
                       /\ JoinLines([j \in 1..(Len(trace[i]) - 1) |->
                                        trace[i][j + 1].line])
                             = alert.Details

\* Details is empty and the call has returned after the one entry
C13_Witness ==
    \E i \in H :
        /\ handlers[i] = [kind |-> "stdout", LogLevel |-> <<"I","N","F","O">>]
        /\ pc[i] = "returned"
        /\ alert.Details = <<>>
        /\ trace[i] = Entries("info", <<alert.Message>>)

(***************************************************************************)
(* C14: a StdoutHandler whose level is panic or fatal, in any letter       *)
(* case, ends its call at the first entry: Message is emitted, then the    *)
(* call panics (panic) or the process exits (fatal); no line of Details    *)
(* is emitted and the call never returns.                                  *)
(***************************************************************************)
C14_FirstEntryEndsCall ==
    \A i \in H :
        (/\ handlers[i].kind = "stdout"
         /\ LevelNamed(handlers[i].LogLevel) \in {"panic", "fatal"}) =>
            LET m == LevelNamed(handlers[i].LogLevel)
            IN  /\ pc[i] # "returned"
                /\ pc[i] \in {"idle", "stdout_line"} => trace[i] = <<>>
                /\ pc[i] \notin {"idle", "stdout_line"} =>
                      /\ pc[i] = IF m = "panic" THEN "panicked" ELSE "exited"
                      /\ Len(trace[i]) = 1
                      /\ trace[i][1].line = alert.Message
                      /\ trace[i][1].level = m
                /\ \A j \in DOMAIN trace[i] : j = 1

\* the process has exited at Message with lines of Details still to go
C14_Witness ==
    \E i \in H :
        /\ handlers[i] = [kind |-> "stdout",
                          LogLevel |-> <<"F","A","T","A","L">>]
        /\ pc[i] = "exited"
        /\ alert.Details = <<"a","\n","b">>
        /\ Len(text[i]) = 3
        /\ Len(trace[i]) = 1

(***************************************************************************)
(* C15: an Alert call changes neither the configuration of a handler nor   *)
(* the alert it is given, and no count of tries outlives a call: in every  *)
(* call, the first as well as a later one, tries counts the failed         *)
(* attempts of that call alone (of the recipient at hand, in an            *)
(* EmailHandler), so that a SlackHandler with MaxRetries >= 0 that         *)
(* returns without a success has made MaxRetries + 1 attempts in that      *)
(* call.                                                                   *)
(***************************************************************************)
Failed(att) == SelectSeq(att, LAMBDA e : ~e.ok)

TriesOfThisCall ==
    \A i \in H :
        /\ pc[i] = "slack_post" => tries[i] = Len(Failed(Ops(i, "post")))
        /\ pc[i] = "email_send" =>
              tries[i] = Len(Failed(RcptOps(i, "send", pos[i])))
        /\ (/\ handlers[i].kind = "slack"
            /\ pc[i] = "returned"
            /\ handlers[i].MaxRetries >= 0
            /\ \A j \in DOMAIN trace[i] : trace[i][j].op = "post"
                                             => ~trace[i][j].ok)
              => Len(Ops(i, "post")) = handlers[i].MaxRetries + 1

ConfigurationAndAlertKept ==
    /\ handlers' = handlers
    /\ cur # 0 => (alert' = alert /\ datacenter' = datacenter)

C15_Stateless == []TriesOfThisCall /\ [][ConfigurationAndAlertKept]_vars

\* the second call of a handler has used the whole budget of three attempts,
\* the counter still standing at the count the loop ended with
C15_Witness ==
    \E i \in H :
        /\ calls = 2
        /\ handlers[i].kind = "slack"
        /\ handlers[i].MaxRetries = 2
        /\ pc[i] = "returned"
        /\ Len(Failed(Ops(i, "post"))) = 3
        /\ tries[i] = 3

(***************************************************************************)
(* C16: when the handlers of a list run as interleaved tasks on the same   *)
(* (datacenter, alert) pair, every handler does what it does alone.        *)
(*                                                                         *)
(* As stated: no task is cut short by another, so when the process is over *)
(* every call has come to its own end.                                     *)
(*                                                                         *)
(* As amended: a step of one task changes nothing of another task, nor     *)
(* the configuration or the alert; in every interleaving each handler's    *)
(* events have the shape they have alone (attempts, waits, client calls,   *)
(* entries), a SlackHandler that returns has made its exact number of      *)
(* attempts, and the panic of one task ends no other; only the exit of a   *)
(* StdoutHandler configured with fatal ends the process, and it then cuts  *)
(* the other tasks where they stand.                                       *)
(***************************************************************************)
Locals(i) == <<pc[i], text[i], pos[i], d[i], tries[i], trace[i]>>

OnlyFatalConsoleExits ==
    \A i \in H :
        pc[i] = "exited" =>
            /\ handlers[i].kind = "stdout"
            /\ LevelNamed(handlers[i].LogLevel) = "fatal"

AsWhenAlone ==
    /\ C11_OneWaitPerFailure
    /\ C12_EveryErrorLogged
    /\ C13_MessageThenLines
    /\ C14_FirstEntryEndsCall
    /\ TriesOfThisCall
    /\ \A i \in H :
          (handlers[i].kind = "slack" /\ pc[i] = "returned") =>
              IF handlers[i].MaxRetries < 0
              THEN trace[i] = <<>>
              ELSE ExactAttempts(Ops(i, "post"), handlers[i].MaxRetries)

OneTaskAtATime ==
    (cur = Tasks /\ cur' = Tasks) =>
        /\ handlers' = handlers
        /\ alert' = alert
        /\ datacenter' = datacenter
        /\ \E i \in H : \A j \in H \ {i} : Locals(j)' = Locals(j)

DeliveryFailureLogs(i) ==
    SelectSeq(trace[i], LAMBDA e :
        /\ e.op = "error"
        /\ e.msg # "Error looking up email server")

NoAttemptNoWait(i) ==
    /\ Attempts(i) = <<>>
    /\ Ops(i, "sleep") = <<>>
    /\ DeliveryFailureLogs(i) = <<>>
    /\ pc[i] \in {"idle", "email_recipient", "returned", "panicked"}

C17_NegativeRetriesReturn ==
    \A i \in H :
        (Retrying(i) /\ handlers[i].MaxRetries < 0) =>
            /\ NoAttemptNoWait(i)
            /\ pc[i] # "panicked"

====
